---- MODULE Spec2Model ----
(***************************************************************************)
(* Model of src/files/mod.rs of thumbcloud: the path sanitizer (fix_path), *)
(* the secure joiner (secure_join), the directory listing                  *)
(* (get_file_respond, add_entry) and the folder creation                   *)
(* (get_new_folder_respond), over an explicit model of the file system the *)
(* std::fs calls act on.                                                   *)
(*                                                                         *)
(* Representation.  A string is a sequence of one-character strings, so    *)
(* that replacing, splitting and quoting are computed and not assumed.  A  *)
(* literal message text is kept as one element.  A file-system location is *)
(* the sequence of the names on the way from "/" to it.                    *)
(*                                                                         *)
(* Platform.  cfg!(windows) is the variable windows.  Of a Windows build   *)
(* the model keeps what the code depends on: fix_path rewrites the         *)
(* separators, and a backslash separates components as "/" does.  Drive    *)
(* and UNC prefixes are not modelled; resolution is path_resolution(7).    *)
(*                                                                         *)
(* Responses are the values handed to the serializer.  serde_json cannot   *)
(* fail on structs of strings, so the fallback of get_file_respond         *)
(* ("Cannot parse content") has no behaviour of its own here.              *)
(***************************************************************************)
EXTENDS Integers, Sequences, FiniteSets, TLC

(***************************************************************************)
(* Bounds of the model.                                                    *)
(***************************************************************************)
\* a requested path has at most MaxSegs segments between separators
MaxSegs == 2
\* at most MaxCreated folders are created in one behaviour
MaxCreated == 1
\* symbolic links followed by one path resolution before the OS gives up
MaxLinks == 2
\* longest string given to fix_path in the specification SpecFix
MaxFixLen == 4

(***************************************************************************)
(* Strings.                                                                *)
(***************************************************************************)
StartsWithStr(s, p) == Len(s) >= Len(p) /\ SubSeq(s, 1, Len(p)) = p

RECURSIVE Replace(_, _, _)
\* str::replace: every non-overlapping match of from, left to right
Replace(s, from, to) ==
  IF Len(s) < Len(from) \/ Len(from) = 0 THEN s
  ELSE IF StartsWithStr(s, from)
       THEN to \o Replace(SubSeq(s, Len(from) + 1, Len(s)), from, to)
       ELSE <<Head(s)>> \o Replace(Tail(s), from, to)

\* str::replace that replaces the first match only
ReplaceFirstOnly(s, from, to) ==
  IF \E i \in 1..Len(s) : StartsWithStr(SubSeq(s, i, Len(s)), from)
  THEN LET i == CHOOSE j \in 1..Len(s) :
                  /\ StartsWithStr(SubSeq(s, j, Len(s)), from)
                  /\ \A k \in 1..(j - 1) : ~StartsWithStr(SubSeq(s, k, Len(s)), from)
       IN SubSeq(s, 1, i - 1) \o to \o SubSeq(s, i + Len(from), Len(s))
  ELSE s

\* fix_path with the first replace hitting one separator only
fix_path_first_only(path, win) ==
  IF win
  THEN Replace(ReplaceFirstOnly(path, <<"/">>, <<"\\">>), <<"\\", "\\">>, <<"\\">>)
  ELSE path

\* fix_path (cfg!(windows) is the parameter win)
fix_path(path, win) ==
  IF win
  THEN Replace(Replace(path, <<"/">>, <<"\\">>), <<"\\", "\\">>, <<"\\">>)
  ELSE path

(***************************************************************************)
(* Paths (std::path on the build's platform).                              *)
(***************************************************************************)
\* std::path::is_separator
IsSep(c, win) == c = "/" \/ (win /\ c = "\\")

\* std::path::MAIN_SEPARATOR
MainSep(win) == IF win THEN "\\" ELSE "/"

RECURSIVE Segments(_, _)
\* the pieces of s between separators, the empty ones included
Segments(s, win) ==
  IF s = <<>> THEN << <<>> >>
  ELSE LET rest == Segments(Tail(s), win)
       IN IF IsSep(Head(s), win)
          THEN << <<>> >> \o rest
          ELSE << <<Head(s)>> \o Head(rest) >> \o Tail(rest)

DotDot == <<".", ".">>
Dot == <<".">>

has_root(s, win) == s # <<>> /\ IsSep(s[1], win)

IsNamed(seg) == seg # <<>> /\ seg # Dot

\* Path::components: empty pieces and "." are dropped, but a leading "." of a
\* relative path is kept (CurDir); ".." is kept as it is
components(s, win) ==
  LET segs == Segments(s, win)
  IN [root  |-> has_root(s, win),
      parts |-> (IF segs[1] = Dot THEN <<Dot>> ELSE <<>>)
                  \o SelectSeq(segs, IsNamed)]

RECURSIVE JoinWith(_, _)
JoinWith(parts, sep) ==
  IF parts = <<>> THEN <<>>
  ELSE IF Len(parts) = 1 THEN parts[1]
  ELSE parts[1] \o <<sep>> \o JoinWith(Tail(parts), sep)

\* the path a component list spells
PathOf(isRoot, parts, sep) ==
  (IF isRoot THEN <<sep>> ELSE <<>>) \o JoinWith(parts, sep)

Front(s) == SubSeq(s, 1, Len(s) - 1)

\* Path::parent: None for "" and for the root directory, otherwise the path
\* without its last component
parent(s, win) ==
  LET c == components(s, win)
  IN IF c.parts = <<>>
     THEN [some |-> FALSE, path |-> <<>>]
     ELSE [some |-> TRUE, path |-> PathOf(c.root, Front(c.parts), "/")]

\* PathBuf::join (push): an absolute second replaces first; otherwise second is
\* appended as written, after a separator when first does not end in one
join(first, second, win) ==
  IF has_root(second, win) THEN second
  ELSE IF first = <<>> \/ IsSep(first[Len(first)], win) THEN first \o second
  ELSE first \o <<MainSep(win)>> \o second

IsPrefix(p, q) == Len(p) <= Len(q) /\ SubSeq(q, 1, Len(p)) = p

\* Path::starts_with: base's components are a prefix of path's components
starts_with(path, base, win) ==
  LET a == components(path, win)
      b == components(base, win)
  IN a.root = b.root /\ IsPrefix(b.parts, a.parts)

(***************************************************************************)
(* The file system the std::fs calls act on.  fs maps every location to    *)
(* its node.  kind is "dir", "file" or "link" (a symbolic link, target its *)
(* text).  perm: the process may search, read and write the directory.     *)
(* readOk, typeOk, nameOk, metaOk: what reading the node as a directory    *)
(* entry yields (the Result of the iterator, of DirEntry::file_type, of    *)
(* OsString::into_string and of DirEntry::metadata).                       *)
(***************************************************************************)
Node(k, pm, tg, sz, rd, ty, nm, mt) ==
  [kind |-> k, perm |-> pm, target |-> tg, size |-> sz,
   readOk |-> rd, typeOk |-> ty, nameOk |-> nm, metaOk |-> mt]

DirNode == Node("dir", TRUE, <<>>, 0, TRUE, TRUE, TRUE, TRUE)
FileNode(sz) == Node("file", TRUE, <<>>, sz, TRUE, TRUE, TRUE, TRUE)
LinkNode(tg) == Node("link", TRUE, tg, 0, TRUE, TRUE, TRUE, TRUE)

Ok(v) == [ok |-> TRUE, val |-> v, err |-> "none"]
Err(e) == [ok |-> FALSE, val |-> <<>>, err |-> e]

ParentLoc(loc) == IF loc = <<>> THEN <<>> ELSE Front(loc)

\* what the OS resolves of a path: the pieces between separators, "." and ".."
\* included, the empty ones not
OsComponents(s, win) == SelectSeq(Segments(s, win), LAMBDA x : x # <<>>)

RECURSIVE Walk(_, _, _, _, _)
\* path resolution (path_resolution(7)) of the components comps from the
\* directory cur: every step needs cur to be a searchable directory, ".." is
\* the parent of the directory reached, a symbolic link is replaced by its
\* target, and at most fuel links are followed
Walk(f, cur, comps, fuel, win) ==
  IF comps = <<>> THEN Ok(cur)
  ELSE LET c == Head(comps)
           rest == Tail(comps)
           next == Append(cur, c)
       IN IF f[cur].kind # "dir" THEN Err("ENOTDIR")
          ELSE IF ~f[cur].perm THEN Err("EACCES")
          ELSE IF c = Dot THEN Walk(f, cur, rest, fuel, win)
          ELSE IF c = DotDot THEN Walk(f, ParentLoc(cur), rest, fuel, win)
          ELSE IF next \notin DOMAIN f THEN Err("ENOENT")
          ELSE IF f[next].kind = "link"
               THEN IF fuel = 0 THEN Err("ELOOP")
                    ELSE Walk(f,
                              IF has_root(f[next].target, win) THEN <<>> ELSE cur,
                              OsComponents(f[next].target, win) \o rest,
                              fuel - 1, win)
          ELSE Walk(f, next, rest, fuel, win)

RECURSIVE WalkLexical(_, _, _, _, _)
\* a resolution that cancels "name/.." in the text and follows no link
WalkLexical(f, cur, comps, fuel, win) ==
  IF comps = <<>> THEN (IF cur \in DOMAIN f THEN Ok(cur) ELSE Err("ENOENT"))
  ELSE LET c == Head(comps)
           rest == Tail(comps)
       IN IF c = Dot THEN WalkLexical(f, cur, rest, fuel, win)
          ELSE IF c = DotDot THEN WalkLexical(f, ParentLoc(cur), rest, fuel, win)
          ELSE WalkLexical(f, Append(cur, c), rest, fuel, win)

\* the location a path names, links followed (paths are absolute here: the
\* configured root is)
Resolve(f, s, win) ==
  LET r == Walk(f, <<>>, OsComponents(s, win), MaxLinks, win)
  IN IF ~r.ok THEN r
     ELSE IF s # <<>> /\ IsSep(s[Len(s)], win) /\ f[r.val].kind # "dir"
          THEN Err("ENOTDIR")
     ELSE r

\* fs::canonicalize (realpath): the absolute path of the location, free of
\* links, "." and ".."; an error when the path does not resolve
canonicalize(f, s, win) ==
  LET r == Resolve(f, s, win)
  IN IF r.ok THEN Ok(PathOf(TRUE, r.val, MainSep(win))) ELSE r

\* a create_dir that succeeds on a directory that exists already
create_dir_existing(f, s, win) ==
  LET comps == OsComponents(s, win)
      par == Walk(f, <<>>, Front(comps), MaxLinks, win)
  IN IF comps = <<>> THEN Err("EEXIST")
     ELSE IF ~par.ok THEN par
     ELSE IF f[par.val].kind # "dir" THEN Err("ENOTDIR")
     ELSE IF ~f[par.val].perm THEN Err("EACCES")
     ELSE IF comps[Len(comps)] \in {Dot, DotDot} THEN Err("EEXIST")
     ELSE Ok(Append(par.val, comps[Len(comps)]))

\* fs::create_dir (mkdir): the parent is resolved, the last component is not;
\* val is the location the directory would be created at
create_dir(f, s, win) ==
  LET comps == OsComponents(s, win)
      par == Walk(f, <<>>, Front(comps), MaxLinks, win)
  IN IF comps = <<>> THEN Err("EEXIST")
     ELSE IF ~par.ok THEN par
     ELSE IF f[par.val].kind # "dir" THEN Err("ENOTDIR")
     ELSE IF ~f[par.val].perm THEN Err("EACCES")
     ELSE IF comps[Len(comps)] \in {Dot, DotDot} THEN Err("EEXIST")
     ELSE IF Append(par.val, comps[Len(comps)]) \in DOMAIN f THEN Err("EEXIST")
     ELSE Ok(Append(par.val, comps[Len(comps)]))

\* the file system with a new empty directory at loc
WithDir(f, loc) == [p \in DOMAIN f \cup {loc} |-> IF p = loc THEN DirNode ELSE f[p]]

\* the locations directly inside the directory loc
Children(f, loc) ==
  {p \in DOMAIN f : Len(p) = Len(loc) + 1 /\ SubSeq(p, 1, Len(loc)) = loc}

RECURSIVE SeqOfSet(_)
SeqOfSet(S) ==
  IF S = {} THEN <<>> ELSE LET x == CHOOSE y \in S : TRUE IN <<x>> \o SeqOfSet(S \ {x})

\* fs::read_dir: the entries of the directory the path names, in the order
\* the iterator yields them; an error when it is no readable directory
read_dir(f, s, win) ==
  LET r == Resolve(f, s, win)
  IN IF ~r.ok THEN r
     ELSE IF f[r.val].kind # "dir" THEN Err("ENOTDIR")
     ELSE IF ~f[r.val].perm THEN Err("EACCES")
     ELSE Ok(SeqOfSet(Children(f, r.val)))

(***************************************************************************)
(* The external collaborators of the listing.                              *)
(***************************************************************************)
\* htmlescape::encode_minimal: the five characters HTML gives a meaning
EncodeChar(c) ==
  CASE c = "&" -> "&amp;"
    [] c = "<" -> "&lt;"
    [] c = ">" -> "&gt;"
    [] c = "\"" -> "&quot;"
    [] c = "'" -> "&#x27;"
    [] OTHER -> c

encode_minimal(s) == [i \in 1..Len(s) |-> EncodeChar(s[i])]

\* category::get_from_name: some label for every name
get_from_name(file_name, simple_icons) ==
  IF simple_icons THEN <<"file">> ELSE <<"file:">> \o file_name

\* pretty_bytes::converter::convert, for sizes below one kilobyte
convert(bytes) == <<ToString(bytes), " ", "B">>

RECURSIVE DebugEscape(_)
DebugEscape(s) ==
  IF s = <<>> THEN <<>>
  ELSE (IF Head(s) \in {"\"", "\\"} THEN <<"\\", Head(s)>> ELSE <<Head(s)>>)
         \o DebugEscape(Tail(s))

\* format!("{:?}", s) of a str: quoted, quotes and backslashes escaped
DebugFmt(s) == <<"\"">> \o DebugEscape(s) \o <<"\"">>

\* Display of the io::Error an errno gives
ErrorText(e) ==
  CASE e = "EEXIST" -> "File exists (os error 17)"
    [] e = "ENOENT" -> "No such file or directory (os error 2)"
    [] e = "ENOTDIR" -> "Not a directory (os error 20)"
    [] e = "EACCES" -> "Permission denied (os error 13)"
    [] OTHER -> "Too many levels of symbolic links (os error 40)"

(***************************************************************************)
(* The configuration: the root, canonical and absolute, and the icon mode. *)
(***************************************************************************)
RootLoc == << <<"r">> >>

config(win) == [path |-> PathOf(TRUE, RootLoc, MainSep(win)), simple_icons |-> FALSE]

(***************************************************************************)
(* secure_join.                                                            *)
(***************************************************************************)
\* secure_join without the containment check
secure_join_unchecked(f, first, second, win) ==
  canonicalize(f, join(first, second, win), win)

\* secure_join that joins without resolving the result
secure_join_lexical(f, first, second, win) ==
  LET result == join(first, second, win)
      r == WalkLexical(f, <<>>, OsComponents(result, win), MaxLinks, win)
      canon == IF r.ok THEN Ok(PathOf(TRUE, r.val, MainSep(win))) ELSE r
  IN IF ~canon.ok THEN canon
     ELSE IF starts_with(canon.val, first, win) THEN canon
     ELSE Err("Paths are not securely joinable")

secure_join(f, first, second, win) ==
  LET result == canonicalize(f, join(first, second, win), win)
  IN IF ~result.ok THEN result
     ELSE IF starts_with(result.val, first, win) THEN result
     ELSE Err("Paths are not securely joinable")

(***************************************************************************)
(* The listing.                                                            *)
(***************************************************************************)
FolderItem_from_name(folder_name) == [name |-> encode_minimal(folder_name)]

FileItem_from(file_name, simple_icons, bytes) ==
  [category |-> get_from_name(file_name, simple_icons),
   name |-> encode_minimal(file_name),
   size |-> Replace(convert(bytes), <<" ", "B">>, <<" ", "bytes">>)]

FileItem_from_name(file_name, simple_icons) ==
  [category |-> get_from_name(file_name, simple_icons),
   name |-> encode_minimal(file_name),
   size |-> <<>>]

FileRespond_from_path(path_name) ==
  [action |-> "sendFilelist", path |-> encode_minimal(path_name),
   folders |-> <<>>, files |-> <<>>]

ErrorRespond(msg) == [action |-> "sendError", message |-> msg]

\* the name a directory entry carries
EntryName(loc) == loc[Len(loc)]

\* add_entry that gives up the classification when the size is unknown
add_entry_strict(respond, f, entry, win) ==
  LET n == f[entry]
  IN IF ~n.readOk \/ ~n.typeOk \/ ~n.nameOk \/ ~n.metaOk THEN respond
     ELSE IF n.kind = "dir"
          THEN [respond EXCEPT !.folders = Append(@, FolderItem_from_name(EntryName(entry)))]
          ELSE [respond EXCEPT !.files =
                  Append(@, FileItem_from(EntryName(entry), config(win).simple_icons, n.size))]

\* add_entry: entry is the location of the entry read
add_entry(respond, f, entry, win) ==
  LET n == f[entry]
  IN IF ~n.readOk THEN respond
     ELSE IF ~n.typeOk THEN respond
     ELSE IF ~n.nameOk THEN respond
     ELSE IF n.kind = "dir"
          THEN [respond EXCEPT !.folders = Append(@, FolderItem_from_name(EntryName(entry)))]
          ELSE [respond EXCEPT !.files =
                  Append(@, IF n.metaOk
                            THEN FileItem_from(EntryName(entry), config(win).simple_icons, n.size)
                            ELSE FileItem_from_name(EntryName(entry), config(win).simple_icons))]

RECURSIVE AddEntriesAbort(_, _, _, _)
\* a loop that stops at the first entry that cannot be read or named
AddEntriesAbort(respond, f, entries, win) ==
  IF entries = <<>> THEN respond
  ELSE LET n == f[Head(entries)]
       IN IF ~n.readOk \/ ~n.typeOk \/ ~n.nameOk THEN respond
          ELSE AddEntriesAbort(add_entry(respond, f, Head(entries), win), f,
                               Tail(entries), win)

RECURSIVE AddEntries(_, _, _, _)
\* the loop over the entries
AddEntries(respond, f, entries, win) ==
  IF entries = <<>> THEN respond
  ELSE AddEntries(add_entry(respond, f, Head(entries), win), f, Tail(entries), win)

NoRead == Err("none")

\* get_file_respond answering an unreadable directory with an empty listing
get_file_respond_empty(f, path_end, win) ==
  LET fixed == fix_path(path_end, win)
      path == secure_join(f, config(win).path, fixed, win)
      entries == read_dir(f, path.val, win)
      failure == ErrorRespond(<<"Cannot read the given path: ">> \o DebugFmt(fixed))
  IN IF ~path.ok
     THEN [respond |-> failure, fixed |-> fixed, second |-> fixed, joined |-> path,
           read |-> NoRead]
     ELSE [respond |-> AddEntries(FileRespond_from_path(fixed), f,
                                  IF entries.ok THEN entries.val ELSE <<>>, win),
           fixed |-> fixed, second |-> fixed, joined |-> path, read |-> entries]

\* get_file_respond: respond is the value serialized, second and joined the
\* argument and the result of secure_join, read the result of read_dir (NoRead
\* when it is not called)
get_file_respond(f, path_end, win) ==
  LET fixed == fix_path(path_end, win)
      path == secure_join(f, config(win).path, fixed, win)
      entries == read_dir(f, path.val, win)
      failure == ErrorRespond(<<"Cannot read the given path: ">> \o DebugFmt(fixed))
  IN IF ~path.ok
     THEN [respond |-> failure, fixed |-> fixed, second |-> fixed, joined |-> path,
           read |-> NoRead]
     ELSE IF ~entries.ok
          THEN [respond |-> failure, fixed |-> fixed, second |-> fixed, joined |-> path,
                read |-> entries]
          ELSE [respond |-> AddEntries(FileRespond_from_path(fixed), f, entries.val, win),
                fixed |-> fixed, second |-> fixed, joined |-> path, read |-> entries]

(***************************************************************************)
(* The folder creation.                                                    *)
(***************************************************************************)
NewFolderRespond(created, msg) ==
  [action |-> "sendNewFolder", created |-> created, message |-> msg]

\* get_new_folder_respond creating the directory whatever the check says
get_new_folder_respond_unvalidated(f, path_end, win) ==
  LET p == parent(path_end, win)
      path_end_parent == IF p.some THEN p.path ELSE <<>>
      checked == secure_join(f, config(win).path, path_end_parent, win)
      path == join(config(win).path, path_end, win)
      made == create_dir(f, path, win)
  IN IF ~made.ok
     THEN [respond |-> NewFolderRespond(FALSE,
                         <<"Cannot create new folder.<br<br>Exact Error: ",
                           ErrorText(made.err)>>),
           second |-> path_end_parent, joined |-> checked, tried |-> <<path>>,
           after |-> f]
     ELSE [respond |-> NewFolderRespond(TRUE, <<>>),
           second |-> path_end_parent, joined |-> checked, tried |-> <<path>>,
           after |-> WithDir(f, made.val)]

\* get_new_folder_respond trying fs::create_dir a second time when it fails
get_new_folder_respond_retry(f, path_end, win) ==
  LET p == parent(path_end, win)
      path_end_parent == IF p.some THEN p.path ELSE <<>>
      checked == secure_join(f, config(win).path, path_end_parent, win)
      path == join(config(win).path, path_end, win)
      made == create_dir(f, path, win)
  IN IF ~checked.ok
     THEN [respond |-> NewFolderRespond(FALSE,
                         <<"Cannot create new folder, because the path is invalid">>),
           second |-> path_end_parent, joined |-> checked, tried |-> <<>>, after |-> f]
     ELSE IF ~made.ok
          THEN [respond |-> NewFolderRespond(FALSE,
                              <<"Cannot create new folder.<br<br>Exact Error: ",
                                ErrorText(made.err)>>),
                second |-> path_end_parent, joined |-> checked,
                tried |-> <<path, path>>, after |-> f]
          ELSE [respond |-> NewFolderRespond(TRUE, <<>>),
                second |-> path_end_parent, joined |-> checked, tried |-> <<path>>,
                after |-> WithDir(f, made.val)]

\* get_new_folder_respond: tried lists the paths given to fs::create_dir,
\* after the file system the request leaves
get_new_folder_respond(f, path_end, win) ==
  LET p == parent(path_end, win)
      path_end_parent == IF p.some THEN p.path ELSE <<>>
      checked == secure_join(f, config(win).path, path_end_parent, win)
      path == join(config(win).path, path_end, win)
      made == create_dir(f, path, win)
  IN IF ~checked.ok
     THEN [respond |-> NewFolderRespond(FALSE,
                         <<"Cannot create new folder, because the path is invalid">>),
           second |-> path_end_parent, joined |-> checked, tried |-> <<>>, after |-> f]
     ELSE IF ~made.ok
          THEN [respond |-> NewFolderRespond(FALSE,
                              <<"Cannot create new folder.<br<br>Exact Error: ",
                                ErrorText(made.err)>>),
                second |-> path_end_parent, joined |-> checked, tried |-> <<path>>,
                after |-> f]
          ELSE [respond |-> NewFolderRespond(TRUE, <<>>),
                second |-> path_end_parent, joined |-> checked, tried |-> <<path>>,
                after |-> WithDir(f, made.val)]

(***************************************************************************)
(* The state machine: the transport hands one request at a time to the     *)
(* core and takes its response (requests are processed synchronously).     *)
(***************************************************************************)
VARIABLES
  windows,   \* cfg!(windows) of the build
  fs,        \* the file system
  pc,        \* "idle": waiting for a request; "done": a response is ready
  op,        \* the handler of the request answered: "list", "mkdir", "fix"
  path_end,  \* the path string of the request
  fixed,     \* the result of fix_path in the request
  respond,   \* the response
  second,    \* the relative path given to secure_join in the request
  joined,    \* the result of secure_join in the request
  read,      \* the result of fs::read_dir in the request
  tried,     \* the paths given to fs::create_dir in the request
  pre        \* the file system when the request arrived

vars ==
  <<windows, fs, pc, op, path_end, fixed, respond, second, joined, read, tried, pre>>

D == <<"d">>
L == <<"l">>
F == <<"f">>
O == <<"o">>
R == <<"r">>

\* The file system at start: the root /r and beside it /o.  In the root a
\* directory d, a file f and a link l leading out of the root; in d a link l
\* back to the root, a link o out of the root, a directory d without
\* permissions, and entries of every kind a listing meets.
InitFS ==
  (<< >> :> DirNode)
  @@ (<<R>> :> DirNode)
  @@ (<<O>> :> DirNode)
  @@ (<<O, F>> :> FileNode(7))
  @@ (<<R, D>> :> DirNode)
  @@ (<<R, F>> :> FileNode(5))
  @@ (<<R, L>> :> LinkNode(<<"/", "o">>))
  @@ (<<R, D, L>> :> LinkNode(<<".", ".">>))
  @@ (<<R, D, O>> :> LinkNode(<<".", ".", "/", ".", ".", "/", "o">>))
  @@ (<<R, D, D>> :> Node("dir", FALSE, <<>>, 0, TRUE, TRUE, TRUE, TRUE))
  @@ (<<R, D, <<"s">>>> :> DirNode)
  @@ (<<R, D, <<"a">>>> :> FileNode(5))
  @@ (<<R, D, <<"&">>>> :> FileNode(0))
  @@ (<<R, D, <<"x">>>> :> Node("file", TRUE, <<>>, 3, TRUE, TRUE, TRUE, FALSE))
  @@ (<<R, D, <<"u">>>> :> Node("dir", TRUE, <<>>, 0, TRUE, TRUE, FALSE, TRUE))
  @@ (<<R, D, <<"t">>>> :> Node("file", TRUE, <<>>, 2, TRUE, FALSE, TRUE, TRUE))
  @@ (<<R, D, <<"e">>>> :> Node("file", TRUE, <<>>, 1, FALSE, TRUE, TRUE, TRUE))

\* the segments a requested path is made of
Tokens == {<<>>, Dot, DotDot, R, O, D, L, F, <<"n">>}

\* the requested paths: up to MaxSegs segments with "/" between them
ReqPaths ==
  {JoinWith(t, "/") : t \in UNION {[1..n -> Tokens] : n \in 0..MaxSegs}}

NoRespond == [action |-> "none"]

Created == Cardinality(DOMAIN fs) - Cardinality(DOMAIN InitFS)

Init ==
  /\ windows \in BOOLEAN
  /\ fs = InitFS
  /\ pc = "idle"
  /\ op = "none"
  /\ path_end = <<>>
  /\ fixed = <<>>
  /\ respond = NoRespond
  /\ second = <<>>
  /\ joined = NoRead
  /\ read = NoRead
  /\ tried = <<>>
  /\ pre = InitFS

\* a listing request
GetFileRespond(p) ==
  /\ pc = "idle"
  /\ LET r == get_file_respond(fs, p, windows)
     IN /\ respond' = r.respond
        /\ fixed' = r.fixed
        /\ second' = r.second
        /\ joined' = r.joined
        /\ read' = r.read
  /\ pc' = "done"
  /\ op' = "list"
  /\ path_end' = p
  /\ tried' = <<>>
  /\ pre' = fs
  /\ UNCHANGED <<windows, fs>>

\* a folder creation request
GetNewFolderRespond(p) ==
  /\ pc = "idle"
  /\ LET r == get_new_folder_respond(fs, p, windows)
     IN /\ Created < MaxCreated \/ r.after = fs
        /\ respond' = r.respond
        /\ second' = r.second
        /\ joined' = r.joined
        /\ tried' = r.tried
        /\ fs' = r.after
  /\ pc' = "done"
  /\ op' = "mkdir"
  /\ path_end' = p
  /\ fixed' = <<>>
  /\ read' = NoRead
  /\ pre' = fs
  /\ UNCHANGED windows

\* the transport takes the response
Deliver ==
  /\ pc = "done"
  /\ pc' = "idle"
  /\ op' = "none"
  /\ path_end' = <<>>
  /\ fixed' = <<>>
  /\ respond' = NoRespond
  /\ second' = <<>>
  /\ joined' = NoRead
  /\ read' = NoRead
  /\ tried' = <<>>
  /\ pre' = fs
  /\ UNCHANGED <<windows, fs>>

Next ==
  \/ \E p \in ReqPaths : GetFileRespond(p)
  \/ \E p \in ReqPaths : GetNewFolderRespond(p)
  \/ Deliver

Spec == Init /\ [][Next]_vars

(***************************************************************************)
(* fix_path on its own: every string over FixChars up to MaxFixLen, on     *)
(* both platforms.                                                         *)
(***************************************************************************)
FixChars == {"a", ".", "/", "\\"}

FixStrings == UNION {[1..n -> FixChars] : n \in 0..MaxFixLen}

InitFix ==
  /\ windows \in BOOLEAN
  /\ path_end \in FixStrings
  /\ pc = "fix"
  /\ op = "fix"
  /\ fs = InitFS
  /\ fixed = <<>>
  /\ respond = NoRespond
  /\ second = <<>>
  /\ joined = NoRead
  /\ read = NoRead
  /\ tried = <<>>
  /\ pre = InitFS

FixPath ==
  /\ pc = "fix"
  /\ fixed' = fix_path(path_end, windows)
  /\ pc' = "fixed"
  /\ UNCHANGED <<windows, fs, op, path_end, respond, second, joined, read, tried, pre>>

NextFix == FixPath

SpecFix == InitFix /\ [][NextFix]_vars

(***************************************************************************)
(* Notions the properties are stated in.                                   *)
(***************************************************************************)
Answered == pc = "done"

\* the location a canonical path spells
LocOf(s) == OsComponents(s, windows)

\* root or a descendant of root
Inside(loc) == IsPrefix(RootLoc, loc)

\* where the root joined with rel leads in the file system f
Target(f, rel) == Resolve(f, join(config(windows).path, rel, windows), windows)

\* loc exists and neither it nor a directory on the way to it is a link
Canonical(f, loc) ==
  \A i \in 0..Len(loc) :
    /\ SubSeq(loc, 1, i) \in DOMAIN f
    /\ f[SubSeq(loc, 1, i)].kind # "link"
    /\ i > 0 => loc[i] \notin {Dot, DotDot}

\* the location fs::create_dir is asked to create: the last component taken
\* in the directory the components before it lead to
AttemptLoc(f, s) ==
  LET comps == OsComponents(s, windows)
      par == Walk(f, <<>>, Front(comps), MaxLinks, windows)
      last == comps[Len(comps)]
  IN IF comps = <<>> THEN Ok(<<>>)
     ELSE IF ~par.ok THEN par
     ELSE IF last = Dot THEN par
     ELSE IF last = DotDot THEN Ok(ParentLoc(par.val))
     ELSE Ok(Append(par.val, last))

\* the directory a listing read
DirRead == Resolve(pre, joined.val, windows).val

\* the entry yields a type and a name
Shown(n) == n.readOk /\ n.typeOk /\ n.nameOk

\* how often the name occurs in a list of items
CountIn(items, name) ==
  Cardinality({i \in 1..Len(items) : items[i].name = encode_minimal(name)})

InvalidPathText == <<"Cannot create new folder, because the path is invalid">>

(***************************************************************************)
(* C1.  secure_join returns Ok(p) only if p is the canonical form of root  *)
(* joined with the relative path and p has root as a component-wise        *)
(* prefix; when the joined path leads outside root or nowhere, it returns  *)
(* an error.                                                               *)
(***************************************************************************)
C1_SecureJoinContained ==
  Answered =>
    LET t == Target(pre, second)
    IN /\ joined.ok =>
            /\ t.ok
            /\ LocOf(joined.val) = t.val
            /\ joined.val = PathOf(TRUE, t.val, MainSep(windows))
            /\ Canonical(pre, t.val)
            /\ Inside(t.val)
       /\ (~t.ok \/ ~Inside(t.val)) => ~joined.ok

\* a traversal that exists outside root was refused
C1_Witness ==
  /\ Answered
  /\ second = <<".", ".", "/", "o">>
  /\ Target(pre, second).ok
  /\ ~Inside(Target(pre, second).val)
  /\ ~joined.ok

(***************************************************************************)
(* C2.  After any requests, the directory a listing reads and the location *)
(* a folder creation attempts to create (root joined with the raw          *)
(* requested path) are root or a descendant of root, and no directory      *)
(* comes into existence outside root.                                      *)
(***************************************************************************)
C2_NoTouchOutsideRoot ==
  Answered =>
    /\ (op = "list" /\ read # NoRead) => Inside(DirRead)
    /\ \A i \in 1..Len(tried) :
         AttemptLoc(pre, tried[i]).ok /\ Inside(AttemptLoc(pre, tried[i]).val)
    /\ \A p \in DOMAIN fs \ DOMAIN InitFS : Inside(p)

\* the part of C2 the code keeps: what a listing reads and what comes into
\* existence is inside root
C2_ReadAndCreatedInside ==
  Answered =>
    /\ (op = "list" /\ read # NoRead) => Inside(DirRead)
    /\ \A p \in DOMAIN fs \ DOMAIN InitFS : Inside(p)

(***************************************************************************)
(* C3.  For a path inside root secure_join returns the canonical absolute  *)
(* path, links and "." and ".." resolved, and joining its result again     *)
(* returns the same result.                                                *)
(***************************************************************************)
C3_InsideCanonicalIdempotent ==
  Answered =>
    LET t == Target(pre, second)
    IN (t.ok /\ Inside(t.val)) =>
         /\ joined = Ok(PathOf(TRUE, t.val, MainSep(windows)))
         /\ Canonical(pre, LocOf(joined.val))
         /\ secure_join(pre, config(windows).path, joined.val, windows) = joined

\* the path d/l, a link back to the root, was joined
C3_Witness ==
  /\ Answered
  /\ op = "list"
  /\ path_end = <<"d", "/", "l">>
  /\ pre[<<R, D, L>>].kind = "link"
  /\ joined.ok
  /\ LocOf(joined.val) = RootLoc

(***************************************************************************)
(* C4.  As claimed: a listing holds every entry of the directory exactly   *)
(* once, the directories in folders and every other entry in files.        *)
(***************************************************************************)
C4_EveryEntryListedOnce ==
  (Answered /\ op = "list" /\ read.ok) =>
    /\ respond.action = "sendFilelist"
    /\ \A e \in Children(pre, DirRead) :
         /\ CountIn(respond.folders, EntryName(e))
              = (IF pre[e].kind = "dir" /\ pre[e].typeOk THEN 1 ELSE 0)
         /\ CountIn(respond.files, EntryName(e))
              = (IF pre[e].kind = "dir" /\ pre[e].typeOk THEN 0 ELSE 1)
    /\ Len(respond.folders) + Len(respond.files)
         = Cardinality(Children(pre, DirRead))

(***************************************************************************)
(* C4, amended.  A listing holds exactly once every entry whose read, type *)
(* lookup and name decoding succeed, the directories in folders and every  *)
(* other such entry in files, whether or not metadata retrieval failed.    *)
(***************************************************************************)
C4_ShownEntriesListedOnce ==
  (Answered /\ op = "list" /\ read.ok) =>
    /\ respond.action = "sendFilelist"
    /\ \A e \in Children(pre, DirRead) :
         /\ CountIn(respond.folders, EntryName(e))
              = (IF Shown(pre[e]) /\ pre[e].kind = "dir" THEN 1 ELSE 0)
         /\ CountIn(respond.files, EntryName(e))
              = (IF Shown(pre[e]) /\ pre[e].kind # "dir" THEN 1 ELSE 0)
    /\ Len(respond.folders) + Len(respond.files)
         = Cardinality({e \in Children(pre, DirRead) : Shown(pre[e])})

\* the directory d, with entries of every kind, was listed
C4_Witness ==
  /\ Answered
  /\ op = "list"
  /\ read.ok
  /\ DirRead = <<R, D>>
  /\ \E e \in Children(pre, DirRead) : ~pre[e].metaOk
  /\ \E e \in Children(pre, DirRead) : pre[e].kind = "dir" /\ Shown(pre[e])
  /\ Len(respond.files) > 1

(***************************************************************************)
(* C5.  Creating a folder whose parent is a directory inside root that the *)
(* process may write to and that holds no entry of that name answers       *)
(* created: true with an empty message; the same request again, right      *)
(* after, answers created: false with a non-empty message, and the         *)
(* directory made by the first is still there.                             *)
(***************************************************************************)
\* the request names a new entry of a writable directory inside root
NewInside(f, p) ==
  LET comps == OsComponents(join(config(windows).path, p, windows), windows)
      par == Walk(f, <<>>, Front(comps), MaxLinks, windows)
  IN /\ comps # <<>>
     /\ comps[Len(comps)] \notin {Dot, DotDot}
     /\ par.ok
     /\ Inside(par.val)
     /\ f[par.val].kind = "dir"
     /\ f[par.val].perm
     /\ Append(par.val, comps[Len(comps)]) \notin DOMAIN f

C6_InvalidParentRefused ==
  (Answered /\ op = "mkdir") =>
    LET q == parent(path_end, windows)
        t == Target(pre, IF q.some THEN q.path ELSE <<>>)
    IN (~t.ok \/ ~Inside(t.val)) =>
         /\ respond = NewFolderRespond(FALSE, InvalidPathText)
         /\ tried = <<>>
         /\ fs = pre

\* the folder ../n, beside the root, was asked for
C6_Witness ==
  /\ Answered
  /\ op = "mkdir"
  /\ path_end = <<".", ".", "/", "n">>
  /\ Target(pre, <<".", ".">>).ok
  /\ ~Inside(Target(pre, <<".", ".">>).val)
  /\ respond.created = FALSE
  /\ respond.message = InvalidPathText

(***************************************************************************)
(* C7.  As claimed: a listing request whose path does not resolve inside   *)
(* root, or resolves to what cannot be opened as a directory, is answered  *)
(* sendError with "Cannot read the given path: " and the quoted requested  *)
(* path, without folders or files; every other one is answered             *)
(* sendFilelist.                                                           *)
(***************************************************************************)
\* the requested path leads to a directory inside root that can be read
Listable(f, p) ==
  LET t == Target(f, p)
  IN t.ok /\ Inside(t.val) /\ f[t.val].kind = "dir" /\ f[t.val].perm

C7_ErrorQuotesRequestedPath ==
  (Answered /\ op = "list") =>
    IF Listable(pre, path_end)
    THEN respond.action = "sendFilelist"
    ELSE respond = [action |-> "sendError",
                    message |-> <<"Cannot read the given path: ">> \o DebugFmt(path_end)]

(***************************************************************************)
(* C7, amended.  The message quotes the path as fix_path returned it,      *)
(* which is the requested path on every platform but Windows.              *)
(***************************************************************************)
C7_ErrorQuotesFixedPath ==
  (Answered /\ op = "list") =>
    /\ ~windows => fixed = path_end
    /\ IF Listable(pre, path_end)
       THEN respond.action = "sendFilelist"
       ELSE respond = [action |-> "sendError",
                       message |-> <<"Cannot read the given path: ">> \o DebugFmt(fixed)]

\* on Windows the directory d/d, which may not be read, was asked for and
\* refused
C7_Witness ==
  /\ Answered
  /\ op = "list"
  /\ windows
  /\ path_end = <<"d", "/", "d">>
  /\ fixed = <<"d", "\\", "d">>
  /\ joined.ok
  /\ read.err = "EACCES"
  /\ respond.action = "sendError"

(***************************************************************************)
(* C9.  In a directory that was opened, an entry whose read, type lookup   *)
(* or name decoding fails is left out, a non-directory whose metadata      *)
(* cannot be read is listed as a file with an empty size, and the answer   *)
(* is a sendFilelist with all the other entries.                           *)
(***************************************************************************)
C9_BadEntryTolerated ==
  (Answered /\ op = "list" /\ read.ok) =>
    /\ respond.action = "sendFilelist"
    /\ \A e \in Children(pre, DirRead) :
         LET n == pre[e]
             nm == encode_minimal(EntryName(e))
         IN /\ ~Shown(n) =>
                 /\ \A i \in 1..Len(respond.folders) : respond.folders[i].name # nm
                 /\ \A i \in 1..Len(respond.files) : respond.files[i].name # nm
            /\ (Shown(n) /\ n.kind = "dir") =>
                 \E i \in 1..Len(respond.folders) : respond.folders[i].name = nm
            /\ (Shown(n) /\ n.kind # "dir") =>
                 \E i \in 1..Len(respond.files) :
                   /\ respond.files[i].name = nm
                   /\ ~n.metaOk => respond.files[i].size = <<>>
                   /\ n.metaOk => respond.files[i].size # <<>>

\* a directory with an unreadable, an untyped, an unnamed and an unsized
\* entry was listed, with entries after them in the answer
C9_Witness ==
  /\ Answered
  /\ op = "list"
  /\ read.ok
  /\ \E e \in Children(pre, DirRead) : ~pre[e].readOk
  /\ \E e \in Children(pre, DirRead) : ~pre[e].typeOk
  /\ \E e \in Children(pre, DirRead) : ~pre[e].nameOk
  /\ \E i \in 1..Len(respond.files) : respond.files[i].size = <<>>
  /\ Len(respond.folders) > 0

(***************************************************************************)
(* C10.  A folder creation answered created: true adds one empty           *)
(* directory, where root joined with the requested path leads, and changes *)
(* nothing else; one answered created: false changes nothing;              *)
(* fs::create_dir is called at most once in a request; a listing changes   *)
(* nothing.                                                                *)
(***************************************************************************)
C10_OnlyOneNewDirectory ==
  Answered =>
    /\ op = "list" => (fs = pre /\ tried = <<>>)
    /\ op = "mkdir" =>
         /\ Len(tried) <= 1
         /\ respond.created = FALSE => fs = pre
         /\ respond.created = TRUE =>
              /\ Len(tried) = 1
              /\ \E loc \in DOMAIN fs :
                   /\ loc \notin DOMAIN pre
                   /\ DOMAIN fs = DOMAIN pre \cup {loc}
                   /\ \A p \in DOMAIN pre : fs[p] = pre[p]
                   /\ fs[loc].kind = "dir"
                   /\ Children(fs, loc) = {}
                   /\ Target(fs, path_end) = Ok(loc)

\* a folder came into being, and another request failed in fs::create_dir
C10_Witness ==
  /\ Answered
  /\ op = "mkdir"
  /\ Len(tried) = 1
  /\ respond.created = FALSE
  /\ Cardinality(DOMAIN fs) > Cardinality(DOMAIN InitFS)

(***************************************************************************)
(* C8.  fix_path is the identity on every platform but Windows; on Windows *)
(* it turns the forward slashes into backslashes and leaves the components *)
(* of the path, ".." among them, as they are.                              *)
(***************************************************************************)
\* the characters of s with every forward slash turned
Backslashed(s) == [i \in 1..Len(s) |-> IF s[i] = "/" THEN "\\" ELSE s[i]]

\* no two separators side by side
SingleSeparators(s) ==
  \A i \in 1..(Len(s) - 1) : ~(IsSep(s[i], TRUE) /\ IsSep(s[i + 1], TRUE))

C8_FixPathKeepsPath ==
  pc = "fixed" =>
    /\ ~windows => fixed = path_end
    /\ windows =>
         /\ \A i \in 1..Len(fixed) : fixed[i] # "/"
         /\ OsComponents(fixed, TRUE) = OsComponents(path_end, TRUE)
         /\ has_root(fixed, TRUE) = has_root(path_end, TRUE)
         /\ SingleSeparators(path_end) => fixed = Backslashed(path_end)

\* ../a was fixed on Windows
C8_Witness ==
  /\ pc = "fixed"
  /\ windows
  /\ path_end = <<".", ".", "/", "a">>
  /\ fixed = <<".", ".", "\\", "a">>

====
